---- MODULE Spec2Model ----
(***************************************************************************)
(* RetroGit (src/retrogit/__init__.py): a git wrapper that gives commits   *)
(* dates spread over a past period.                                        *)
(*                                                                         *)
(* The model holds the repository (its linear history and its hooks        *)
(* directory), the configuration file, the wall clock and the local UTC    *)
(* offset, and the stack of running processes: a retrogit verb spawns git, *)
(* git runs the post-commit hook, the hook spawns git again.  Every        *)
(* process blocks on its child, so the process on top of the stack is the  *)
(* one that runs.                                                          *)
(*                                                                         *)
(* Time is counted in seconds.  A datetime is a wall-clock reading with    *)
(* the UTC offset it carries (aware) or without one (naive); a commit      *)
(* stores an instant and the offset it was recorded with, as git does.     *)
(***************************************************************************)
EXTENDS Integers, Sequences, FiniteSets

\* ---------------------------------------------------------------- bounds
\* user commands started in one behaviour
MaxOps == 3
\* advances of the wall clock in one behaviour
MaxTicks == 1

\* ------------------------------------------------------------ time units
Hour == 60 * 60
Day == 24 * Hour
\* the wall clock when the behaviour starts (an instant, seconds)
StartClock == 100 * Day
\* local UTC offsets of the machine: standard time and daylight saving time
TzOffsets == {0, Hour}
\* exit codes a failing git commit returns
FailCodes == {1, 128}

VARIABLES
    clock,            \* wall clock: the current instant
    tzLocal,          \* UTC offset the local time zone has now
    ticks,            \* advances of the clock so far
    ops,              \* user commands started so far
    isRepo,           \* the working directory is a git working tree
    history,          \* the commits of the branch, oldest first: the committer
                      \* date and offset, and for the claims the clock when the
                      \* commit was made, the command that made it ("verb" for
                      \* retrogit commit, "plain" for git commit) and who amended it
    hooksDir,         \* <<>> when .git/hooks does not exist, else <<set of files>>
    configFile,       \* <<>> when config.toml does not exist, else <<timing table>>
    configDirExists,  \* the parent directory of config.toml exists
    stack,            \* the running processes, the root first
    ret,              \* the exit of the process that ended last
    amends,           \* git commit --amend processes spawned by the current user command
    steps,            \* process steps of the current user command (saturates)
    lastCall,         \* what the last setup_git_dates call of the command read and produced
    lastPC,           \* what the last cmd_post_commit run of the command saw and decided
    lastLoad,         \* what the last load_config call of the command returned
    lastInstall       \* what the last cmd_install_hook run found and left

vars == <<clock, tzLocal, ticks, ops, isRepo, history, hooksDir, configFile,
          configDirExists, stack, ret, amends, steps, lastCall, lastPC,
          lastLoad, lastInstall>>

\* ------------------------------------------------------------- utilities
Min(a, b) == IF a < b THEN a ELSE b
Last(s) == s[Len(s)]
Front(s) == SubSeq(s, 1, Len(s) - 1)

\* ---------------------------------------------------------- configuration
\* load_config's hardcoded default (the "timing" table of the Config)
DefaultConfig ==
    [interval_days |-> 3, randomness_days |-> 1, initial_backdate_days |-> 30]

\* timing tables a config.toml on disk may hold: one without the optional
\* initial_backdate_days key and one with a short backdate window
FileConfigs ==
    { [interval_days |-> 5, randomness_days |-> 1],
      [interval_days |-> 2, randomness_days |-> 1, initial_backdate_days |-> 3] }

\* the value load_config returns for the file state `file`
load_config(file) == IF file = <<>> THEN DefaultConfig ELSE file[1]

\* the config file after load_config ran: it is only read
load_config_file_mut(file) == IF file = <<>> THEN <<DefaultConfig>> ELSE file
load_config_file(file) == file

\* the parent directory after load_config ran: mkdir(parents, exist_ok) when
\* the file is missing
load_config_dir(file, dirExists) == IF file = <<>> THEN TRUE ELSE dirExists

\* dict.get(key, default)
Get(table, key, default) == IF key \in DOMAIN table THEN table[key] ELSE default

\* --------------------------------------------------------------- datetimes
\* commit.committed_datetime: aware, in the offset the commit was recorded with
committed_datetime(c) == [wall |-> c.date + c.tz, off |-> c.tz, aware |-> TRUE]
\* datetime.now(): naive local time
now_datetime(t, tz) == [wall |-> t + tz, off |-> 0, aware |-> FALSE]
\* datetime + timedelta(seconds): arithmetic on the wall-clock reading
plus_timedelta(dt, secs) == [dt EXCEPT !.wall = @ + secs]
\* the instant an aware datetime denotes
instant(dt) == dt.wall - dt.off

\* repo.iter_commits(max_count=n): the newest n commits, newest first
iter_commits(h, n) ==
    [i \in 1..Min(n, Len(h)) |-> h[Len(h) + 1 - i]]

\* get_last_commit_date in a valid repository
get_last_commit_date_mut(skip_last, commits, now, config) ==
    IF commits = <<>>
    THEN plus_timedelta(now, 0 - Get(config, "initial_backdate_days", 30) * Day)
    ELSE committed_datetime(commits[1])
get_last_commit_date(skip_last, commits, now, config) ==
    IF commits = <<>>
    THEN plus_timedelta(now, 0 - Get(config, "initial_backdate_days", 30) * Day)
    ELSE IF skip_last /\ Len(commits) > 1
         THEN committed_datetime(commits[2])
         ELSE committed_datetime(commits[1])

\* random.uniform(a, b) days, in seconds: a + (b - a) * random(), of which the
\* two ends of the closed interval stand for the continuous range
uniform(a, b) == {a * Day + (b - a) * r * Day : r \in {0, 1}}

\* the draws calculate_next_commit_date can make under `config`
intervals(config) ==
    uniform(config.interval_days - config.randomness_days,
            config.interval_days + config.randomness_days)

\* calculate_next_commit_date, given the draw
calculate_next_commit_date_mut(last_date, actual_interval) ==
    plus_timedelta(last_date, 0 - actual_interval)
calculate_next_commit_date(last_date, actual_interval) ==
    plus_timedelta(last_date, actual_interval)

\* date strings: "local" is YYYY-MM-DD HH:MM:SS without a zone, "raw" is git's
\* own "@<epoch> <offset>" form, "absent" is an unset environment variable
Absent == [fmt |-> "absent", v |-> 0, tz |-> 0]
\* next_date.strftime("%Y-%m-%d %H:%M:%S"): the wall-clock reading, whole
\* seconds, the offset dropped
strftime(dt) == [fmt |-> "local", v |-> dt.wall, tz |-> 0]
\* git reading a date: a zoneless string is local time in the current zone
git_parse_date(s, tz) ==
    IF s.fmt = "raw" THEN [date |-> s.v, tz |-> s.tz]
    ELSE [date |-> s.v - tz, tz |-> tz]
git_raw_date(d) == [fmt |-> "raw", v |-> d.date, tz |-> d.tz]

\* ------------------------------------------------------------ environment
\* the three variables of the process environment the program reads or writes
CleanEnv ==
    [GIT_AUTHOR_DATE |-> Absent, GIT_COMMITTER_DATE |-> Absent,
     RETROGIT_COMMIT_AMENDED |-> ""]
\* a date a user may have exported by hand
SomeDate == [fmt |-> "raw", v |-> StartClock, tz |-> 0]
\* environments a user may run `retrogit post-commit` in
UserEnvs ==
    [GIT_AUTHOR_DATE : {Absent, SomeDate}, GIT_COMMITTER_DATE : {Absent, SomeDate},
     RETROGIT_COMMIT_AMENDED : {"", "1"}]

\* ------------------------------------------------------------------ hooks
\* the script cmd_install_hook writes: shebang, comment, re-invocation line
HookCommand == "python retrogit/__init__.py post-commit"
HookScript == <<"#!/bin/sh", "# RetroGit post-commit hook", HookCommand>>
InstalledHook == [name |-> "post-commit", lines |-> HookScript, mode |-> "0o755"]
\* the sample hook a fresh `git init` leaves
SampleHook == [name |-> "post-commit.sample", lines |-> <<"#!/bin/sh">>, mode |-> "0o755"]

\* open(hook_path, "w"), f.write(script), hook_path.chmod(0o755) on the files
\* of the hooks directory
write_hook_mut(files) ==
    LET old == {f \in files : f.name = "post-commit"}
        kept == IF old = {} THEN << >> ELSE (CHOOSE f \in old : TRUE).lines
    IN  (files \ old)
            \cup {[name |-> "post-commit", lines |-> kept \o HookScript, mode |-> "0o755"]}
write_hook(files) ==
    LET old == {f \in files : f.name = "post-commit"}
        opened == [name |-> "post-commit", lines |-> << >>,
                   mode |-> IF old = {} THEN "0o644" ELSE (CHOOSE f \in old : TRUE).mode]
        written == [opened EXCEPT !.lines = HookScript]
    IN  (files \ old) \cup {[written EXCEPT !.mode = "0o755"]}

\* git runs .git/hooks/post-commit when it exists and is executable; the
\* script starts cmd_post_commit when it holds the re-invocation line
hook_runs(dir) ==
    /\ dir # << >>
    /\ \E f \in dir[1] :
        /\ f.name = "post-commit"
        /\ f.mode = "0o755"
        /\ \E i \in 1..Len(f.lines) : f.lines[i] = HookCommand

\* -------------------------------------------------------------- processes
Frame(proc, argv, env, date) ==
    [proc |-> proc, argv |-> argv, env |-> env, date |-> date, wait |-> FALSE]
NoExit == [proc |-> "none", code |-> 0, child |-> 0 - 1]
idle == stack = << >>
top == Last(stack)
running(proc) == ~idle /\ top.proc = proc /\ ~top.wait
returned(proc) == ~idle /\ top.proc = proc /\ top.wait
is_amend(f) == \E i \in 1..Len(f.argv) : f.argv[i] = "--amend"

\* sys.exit(code) of the running process; child is the exit code of the
\* command it delegated to, -1 when it ran none
Exit(code, child) ==
    /\ stack' = Front(stack)
    /\ ret' = [proc |-> top.proc, code |-> code, child |-> child]
\* subprocess.run(...) or a hook started by git: the parent waits for `f`
Spawn(env, f) ==
    /\ stack' = Append([stack EXCEPT ![Len(stack)] = [@ EXCEPT !.wait = TRUE, !.env = env]], f)
    /\ ret' = ret
Step == steps' = Min(steps + 1, 12)

NoCall ==
    [called |-> FALSE, skip_last |-> FALSE, commits |-> << >>,
     now |-> now_datetime(StartClock, 0), config |-> DefaultConfig,
     reference |-> now_datetime(StartClock, 0), next |-> now_datetime(StartClock, 0),
     date_str |-> Absent]
NoLoad == [called |-> FALSE, missing |-> FALSE, returned |-> DefaultConfig]

\* the values setup_git_dates computes in a valid repository, for the draw
\* actual_interval: config (line 125), the commits read and the reference
\* date (line 126, which loads the config again when there is no commit),
\* the next date (line 127) and the string it publishes (line 128)
setup_values(skip_last, actual_interval) ==
    LET config == load_config(configFile)
        file1 == load_config_file(configFile)
        commits == iter_commits(history, 2)
        now == now_datetime(clock, tzLocal)
        last_date ==
            get_last_commit_date(skip_last, commits, now, load_config(file1))
        next_date == calculate_next_commit_date(last_date, actual_interval)
    IN  [called |-> TRUE, skip_last |-> skip_last, commits |-> commits,
         now |-> now, config |-> config, reference |-> last_date,
         next |-> next_date, date_str |-> strftime(next_date)]

\* os.environ after setup_git_dates published date_str (lines 131-132)
publish(env, date_str) ==
    [env EXCEPT !.GIT_AUTHOR_DATE = date_str, !.GIT_COMMITTER_DATE = date_str]

\* the file system after the load_config calls of one setup_git_dates run
LoadEffects ==
    LET file1 == load_config_file(configFile)
        dir1 == load_config_dir(configFile, configDirExists)
        again == isRepo /\ history = << >>
    IN  /\ configFile' = IF again THEN load_config_file(file1) ELSE file1
        /\ configDirExists' = IF again THEN load_config_dir(file1, dir1) ELSE dir1
        /\ lastLoad' = [called |-> TRUE, missing |-> configFile = << >>,
                        returned |-> load_config(configFile)]

\* ------------------------------------------------------------------- Init
NoPC ==
    [ran |-> FALSE, before |-> CleanEnv, after |-> CleanEnv, outcome |-> "none",
     call |-> NoCall]
NoInstall ==
    [n |-> 0, repo |-> FALSE, before |-> << >>, after |-> << >>, code |-> 0]

Init ==
    /\ clock = StartClock
    /\ tzLocal = 0
    /\ ticks = 0
    /\ ops = 0
    /\ isRepo \in BOOLEAN
    /\ history = << >>
    /\ hooksDir = IF isRepo THEN <<{SampleHook}>> ELSE << >>
    /\ configFile \in {<< >>} \cup {<<c>> : c \in FileConfigs}
    /\ configDirExists = (configFile # << >>)
    /\ stack = << >>
    /\ ret = NoExit
    /\ amends = 0
    /\ steps = 0
    /\ lastCall = NoCall
    /\ lastPC = NoPC
    /\ lastLoad = NoLoad
    /\ lastInstall = NoInstall

\* ------------------------------------------------------------ environment
\* time passes between two user commands: the clock advances by a day, and
\* the local zone may switch between standard and daylight saving time
Tick ==
    /\ idle
    /\ ticks < MaxTicks
    /\ clock' = clock + Day
    /\ tzLocal' \in TzOffsets
    /\ ticks' = ticks + 1
    /\ UNCHANGED <<ops, isRepo, history, hooksDir, configFile,
                   configDirExists, stack, ret, amends, steps, lastCall, lastPC,
                   lastLoad, lastInstall>>

\* the commands a user types: main() dispatches on sys.argv[1] (lines 224-230),
\* and `git commit` is run directly when the hook is relied on
UserCommands ==
    {Frame("cmd_commit", <<"retrogit", "commit">>, CleanEnv, Absent),
     Frame("cmd_commit", <<"retrogit", "commit", "-m", "msg">>, CleanEnv, Absent),
     Frame("git_commit", <<"git", "commit", "-m", "msg">>, CleanEnv, Absent),
     Frame("cmd_install_hook", <<"retrogit", "install">>, CleanEnv, Absent)}
    \cup {Frame("cmd_post_commit", <<"retrogit", "post-commit">>, e, Absent) : e \in UserEnvs}

Launch ==
    /\ idle
    /\ ops < MaxOps
    /\ \E f \in UserCommands : stack' = <<f>>
    /\ ops' = ops + 1
    /\ amends' = 0
    /\ steps' = 0
    /\ ret' = NoExit
    /\ lastCall' = NoCall
    /\ lastPC' = NoPC
    /\ lastLoad' = NoLoad
    /\ UNCHANGED <<clock, tzLocal, ticks, isRepo, history, hooksDir, configFile,
                   configDirExists, lastInstall>>

\* ------------------------------------------------------------- cmd_commit
\* the exit code of cmd_commit once git commit returned `returncode`
cmd_commit_exit(returncode) == returncode

\* lines 139-151: usage error, else setup_git_dates(skip_last=False) and git commit
cmd_commit ==
    /\ running("cmd_commit")
    /\ Step
    /\ IF Len(top.argv) < 3
       THEN /\ Exit(1, 0 - 1)
            /\ UNCHANGED <<configFile, configDirExists, lastLoad, lastCall>>
       ELSE /\ LoadEffects
            /\ IF ~isRepo
               THEN Exit(1, 0 - 1) /\ UNCHANGED lastCall
               ELSE \E u \in intervals(load_config(configFile)) :
                        LET r == setup_values(FALSE, u)
                            env == publish(top.env, r.date_str)
                        IN  /\ lastCall' = r
                            /\ Spawn(env, Frame("git_commit",
                                   <<"git", "commit">> \o SubSeq(top.argv, 3, Len(top.argv)),
                                   env, Absent))
    /\ UNCHANGED <<clock, tzLocal, ticks, ops, isRepo, history, hooksDir, amends,
                   lastPC, lastInstall>>

\* lines 152-154: the exit code of git commit is passed on
cmd_commit_return ==
    /\ returned("cmd_commit")
    /\ Step
    /\ Exit(cmd_commit_exit(ret.code), ret.code)
    /\ UNCHANGED <<clock, tzLocal, ticks, ops, isRepo, history, hooksDir, configFile,
                   configDirExists, amends, lastCall, lastPC, lastLoad, lastInstall>>

\* -------------------------------------------------------------------- git
\* git commit [--amend --no-edit --date D]: it fails (nothing to commit, not a
\* repository, no commit to amend), or records the commit with the committer
\* time of GIT_COMMITTER_DATE (the clock when unset) and then runs the
\* post-commit hook with GIT_AUTHOR_DATE exported
git_commit ==
    /\ running("git_commit")
    /\ Step
    /\ \/ /\ \E n \in FailCodes : Exit(n, 0 - 1)
          /\ UNCHANGED history
       \/ /\ isRepo
          /\ is_amend(top) => history # << >>
          /\ LET herenow == [date |-> clock, tz |-> tzLocal]
                 committer ==
                     IF top.env.GIT_COMMITTER_DATE # Absent
                     THEN git_parse_date(top.env.GIT_COMMITTER_DATE, tzLocal)
                     ELSE herenow
                 author ==
                     IF top.date # Absent THEN git_parse_date(top.date, tzLocal)
                     ELSE IF top.env.GIT_AUTHOR_DATE # Absent
                          THEN git_parse_date(top.env.GIT_AUTHOR_DATE, tzLocal)
                          ELSE herenow
                 hookenv == [top.env EXCEPT !.GIT_AUTHOR_DATE = git_raw_date(author)]
             IN  /\ history' =
                        IF is_amend(top)
                        THEN [history EXCEPT ![Len(history)] =
                                 [@ EXCEPT !.date = committer.date, !.tz = committer.tz,
                                           !.amended = IF stack[1].proc = "cmd_post_commit"
                                                       THEN "user" ELSE "hook"]]
                        ELSE Append(history,
                                 [date |-> committer.date, tz |-> committer.tz,
                                  made |-> clock,
                                  via |-> IF stack[1].proc = "cmd_commit"
                                          THEN "verb" ELSE "plain",
                                  amended |-> "no"])
                 /\ IF hook_runs(hooksDir)
                    THEN Spawn(top.env, Frame("cmd_post_commit",
                             <<"retrogit", "post-commit">>, hookenv, Absent))
                    ELSE Exit(0, 0 - 1)
    /\ UNCHANGED <<clock, tzLocal, ticks, ops, isRepo, hooksDir, configFile,
                   configDirExists, amends, lastCall, lastPC, lastLoad, lastInstall>>

\* git ignores the exit status of the post-commit hook
git_commit_return ==
    /\ returned("git_commit")
    /\ Step
    /\ Exit(0, ret.code)
    /\ UNCHANGED <<clock, tzLocal, ticks, ops, isRepo, history, hooksDir, configFile,
                   configDirExists, amends, lastCall, lastPC, lastLoad, lastInstall>>

\* -------------------------------------------------------- cmd_post_commit
\* line 159: the guard on the hook environment
missing_hook_env_mut(env) ==
    env.GIT_AUTHOR_DATE = Absent /\ env.GIT_COMMITTER_DATE = Absent
missing_hook_env(env) == env.GIT_AUTHOR_DATE = Absent
\* line 167: the re-entrancy guard
already_amended_mut(env) == FALSE
already_amended(env) == env.RETROGIT_COMMIT_AMENDED = "1"
\* lines 181-184: the exit code once git commit --amend returned `returncode`
cmd_post_commit_exit_mut(returncode) == returncode
cmd_post_commit_exit(returncode) == IF returncode = 0 THEN 0 ELSE 1

\* lines 159-180
cmd_post_commit ==
    /\ running("cmd_post_commit")
    /\ Step
    /\ IF missing_hook_env(top.env)
       THEN /\ Exit(1, 0 - 1)
            /\ lastPC' = [ran |-> TRUE, before |-> top.env, after |-> top.env,
                          outcome |-> "exit1", call |-> NoCall]
            /\ UNCHANGED <<configFile, configDirExists, lastLoad, lastCall, amends>>
       ELSE IF already_amended(top.env)
       THEN /\ Exit(0, 0 - 1)
            /\ lastPC' = [ran |-> TRUE, before |-> top.env, after |-> top.env,
                          outcome |-> "exit0", call |-> NoCall]
            /\ UNCHANGED <<configFile, configDirExists, lastLoad, lastCall, amends>>
       ELSE /\ LoadEffects
            /\ IF ~isRepo
               THEN /\ Exit(1, 0 - 1)
                    /\ lastPC' = [ran |-> TRUE, before |-> top.env, after |-> top.env,
                                  outcome |-> "norepo", call |-> NoCall]
                    /\ UNCHANGED <<lastCall, amends>>
               ELSE \E u \in intervals(load_config(configFile)) :
                        LET r == setup_values(TRUE, u)
                            environ == publish(top.env, r.date_str)
                            env == [environ EXCEPT !.RETROGIT_COMMIT_AMENDED = "1"]
                        IN  /\ lastCall' = r
                            /\ lastPC' = [ran |-> TRUE, before |-> top.env,
                                          after |-> environ, outcome |-> "amend",
                                          call |-> r]
                            /\ amends' = Min(amends + 1, 3)
                            /\ Spawn(environ, Frame("git_commit",
                                   <<"git", "commit", "--amend", "--no-edit", "--date">>,
                                   env, r.date_str))
    /\ UNCHANGED <<clock, tzLocal, ticks, ops, isRepo, history, hooksDir, lastInstall>>

\* lines 181-184: 0 when the amend succeeded, 1 on CalledProcessError
cmd_post_commit_return ==
    /\ returned("cmd_post_commit")
    /\ Step
    /\ Exit(cmd_post_commit_exit(ret.code), ret.code)
    /\ UNCHANGED <<clock, tzLocal, ticks, ops, isRepo, history, hooksDir, configFile,
                   configDirExists, amends, lastCall, lastPC, lastLoad, lastInstall>>

\* ------------------------------------------------------- cmd_install_hook
\* lines 189-211: mkdir the hooks directory, write the script, chmod, exit 0;
\* outside a repository git.Repo raises and the handler exits 1
cmd_install_hook ==
    /\ running("cmd_install_hook")
    /\ Step
    /\ IF ~isRepo
       THEN /\ Exit(1, 0 - 1)
            /\ hooksDir' = hooksDir
            /\ lastInstall' = [n |-> Min(lastInstall.n + 1, 2), repo |-> FALSE,
                               before |-> hooksDir, after |-> hooksDir, code |-> 1]
       ELSE LET files == IF hooksDir = << >> THEN {} ELSE hooksDir[1]
                after == <<write_hook(files)>>
            IN  /\ hooksDir' = after
                /\ Exit(0, 0 - 1)
                /\ lastInstall' = [n |-> Min(lastInstall.n + 1, 2), repo |-> TRUE,
                                   before |-> hooksDir, after |-> after, code |-> 0]
    /\ UNCHANGED <<clock, tzLocal, ticks, ops, isRepo, history, configFile,
                   configDirExists, amends, lastCall, lastPC, lastLoad>>

\* ------------------------------------------------------------------- Next
Next ==
    \/ Tick
    \/ Launch
    \/ cmd_commit
    \/ cmd_commit_return
    \/ git_commit
    \/ git_commit_return
    \/ cmd_post_commit
    \/ cmd_post_commit_return
    \/ cmd_install_hook

Spec == Init /\ [][Next]_vars

\* ================================================================ claims
\* the precondition of the timing claims: 0 <= randomness_days < interval_days
ValidTiming(config) ==
    0 <= config.randomness_days /\ config.randomness_days < config.interval_days
lo(config) == (config.interval_days - config.randomness_days) * Day
hi(config) == (config.interval_days + config.randomness_days) * Day
\* a commit that still carries the timestamp setup_git_dates(skip_last=False) gave it
by_verb(c) == c.via = "verb" /\ c.amended = "no"
Commits == 1..Len(history)
WithParent == 2..Len(history)

\* C1: for every config with 0 <= randomness_days < interval_days the date
\* calculate_next_commit_date returns and setup_git_dates publishes lies in
\* [reference + interval - randomness, reference + interval + randomness] days,
\* and so every commit created with the timestamp of
\* setup_git_dates(skip_last=False) is between interval - randomness and
\* interval + randomness days after its predecessor.
C1_SpacingWithinInterval ==
    LET config == load_config(configFile)
    IN  ValidTiming(config) =>
            /\ lastCall.called =>
                   /\ lastCall.reference.wall + lo(config) <= lastCall.next.wall
                   /\ lastCall.next.wall <= lastCall.reference.wall + hi(config)
                   /\ lastCall.date_str.v = lastCall.next.wall
            /\ (\A i \in Commits : by_verb(history[i])) =>
                   \A i \in WithParent :
                       /\ history[i - 1].date + lo(config) <= history[i].date
                       /\ history[i].date <= history[i - 1].date + hi(config)

\* C2: get_last_commit_date(skip_last) takes now minus initial_backdate_days
\* when there is no commit, the most recent commit's committed time when
\* skip_last is false, the second-most-recent commit's when skip_last is true
\* and there are two commits, and the single commit's when skip_last is true
\* and there is one.
C2_ReferenceCases ==
    lastCall.called =>
        LET c == lastCall.commits
            n == Len(c)
            ref == lastCall.reference
        IN  /\ n = 0 =>
                /\ ~ref.aware
                /\ ref.wall = lastCall.now.wall
                       - Get(load_config(configFile), "initial_backdate_days", 30) * Day
            /\ (n >= 1 /\ ~lastCall.skip_last) =>
                /\ ref.aware
                /\ instant(ref) = c[1].date
            /\ (n >= 2 /\ lastCall.skip_last) =>
                /\ ref.aware
                /\ instant(ref) = c[2].date
                /\ ref.off = c[2].tz
            /\ (n = 1 /\ lastCall.skip_last) =>
                /\ ref.aware
                /\ instant(ref) = c[1].date
C2_Witness ==
    /\ lastCall.called
    /\ lastCall.skip_last
    /\ Len(lastCall.commits) = 2
    /\ lastCall.commits[1].date # lastCall.commits[2].date

\* C3: post-commit run with RETROGIT_COMMIT_AMENDED = "1" does nothing (no
\* amend, no timestamp variable written), so a real commit leads to exactly
\* one amend and the chain commit -> hook -> amend -> hook ends: at most one
\* amend is spawned, at most five processes are nested, the chain takes at
\* most nine steps, and a successful commit with the hook in place has been
\* amended once when the command is over.
C3_OneAmendPerCommit ==
    /\ (lastPC.ran /\ lastPC.before.RETROGIT_COMMIT_AMENDED = "1") =>
           /\ lastPC.outcome \in {"exit0", "exit1"}
           /\ lastPC.after = lastPC.before
    /\ amends <= 1
    /\ Len(stack) <= 5
    /\ steps <= 9
    /\ (idle /\ ret.proc \in {"git_commit", "cmd_commit"} /\ ret.code = 0) =>
           amends = IF hook_runs(hooksDir) THEN 1 ELSE 0
C3_Witness ==
    /\ idle
    /\ ret.proc = "git_commit"
    /\ ret.code = 0
    /\ amends = 1
    /\ lastPC.outcome = "exit0"
    /\ lastPC.before.RETROGIT_COMMIT_AMENDED = "1"
    /\ history # << >>
    /\ Last(history).amended = "hook"

\* C4: in an initially empty repository with the hook installed, a plain
\* commit made at wall-clock time T has, after the hook's amend, a recorded
\* date strictly earlier than T.
C4_HookBackdatesFirstCommit ==
    (history # << >> /\ history[1].via = "plain" /\ history[1].amended = "hook") =>
        history[1].date < history[1].made

\* C5: for a sequence of `commit` invocations on a repository that starts
\* empty (0 <= randomness_days < interval_days, initial_backdate_days > 0,
\* clock non-decreasing) the timestamp of each new commit is not later than
\* the wall-clock time at which the commit is made.
C5_VerbCommitsNotInFuture ==
    LET config == load_config(configFile)
    IN  (/\ ValidTiming(config)
         /\ Get(config, "initial_backdate_days", 30) > 0
         /\ \A i \in Commits : by_verb(history[i])) =>
            \A i \in Commits : history[i].date <= history[i].made

\* C6: when the delegated git commit (of `commit`) or git commit --amend (of
\* post-commit) exits with a non-zero code N the retrogit process exits with
\* N, and with 0 when it succeeds.
C6_ExitCodePassThrough ==
    (ret.proc \in {"cmd_commit", "cmd_post_commit"} /\ ret.child >= 0) =>
        ret.code = ret.child
\* C6 as amended: `commit` exits with the exit code of git commit; post-commit
\* exits 0 when the amend succeeds and 1 when it fails with any code.
C6_ExitCodes ==
    /\ (ret.proc = "cmd_commit" /\ ret.child >= 0) => ret.code = ret.child
    /\ (ret.proc = "cmd_post_commit" /\ ret.child >= 0) =>
           ret.code = IF ret.child = 0 THEN 0 ELSE 1
C6_Witness ==
    /\ ret.proc = "cmd_post_commit"
    /\ ret.child = 128
    /\ ret.code = 1

\* C7: post-commit fails with exit status 1 and amends nothing if the two
\* timestamp variables GIT_AUTHOR_DATE and GIT_COMMITTER_DATE are absent;
\* otherwise it exits 0 at once if the re-entrancy marker is set; only with the
\* timestamp variables present and the marker unset does it compute a
\* timestamp with skip_last=True and amend the tip.
C7_GuardOnBothVariables ==
    lastPC.ran =>
        LET a == lastPC.before.GIT_AUTHOR_DATE # Absent
            c == lastPC.before.GIT_COMMITTER_DATE # Absent
            m == lastPC.before.RETROGIT_COMMIT_AMENDED = "1"
        IN  /\ (~a /\ ~c) => lastPC.outcome = "exit1"
            /\ ((a \/ c) /\ m) => lastPC.outcome = "exit0"
            /\ lastPC.outcome = "amend" => (a /\ c /\ ~m /\ lastPC.call.skip_last)
\* C7 as amended: post-commit fails with exit status 1 and amends nothing if
\* GIT_AUTHOR_DATE is absent, whatever GIT_COMMITTER_DATE and the marker are;
\* otherwise it exits 0 at once if the marker is set; only with
\* GIT_AUTHOR_DATE present and the marker unset does it compute a timestamp
\* with skip_last=True and spawn the amend of the tip with that date and the
\* marker set, which it does whenever the directory is a repository.
C7_GuardOnAuthorDate ==
    /\ lastPC.ran =>
        LET a == lastPC.before.GIT_AUTHOR_DATE # Absent
            m == lastPC.before.RETROGIT_COMMIT_AMENDED = "1"
        IN  /\ ~a => (lastPC.outcome = "exit1" /\ lastPC.after = lastPC.before)
            /\ (a /\ m) => (lastPC.outcome = "exit0" /\ lastPC.after = lastPC.before)
            /\ lastPC.outcome = "amend" =>
                   /\ a /\ ~m
                   /\ lastPC.call.called /\ lastPC.call.skip_last
                   /\ lastPC.after.GIT_COMMITTER_DATE = lastPC.call.date_str
            /\ (a /\ ~m /\ isRepo) => lastPC.outcome = "amend"
    /\ (running("git_commit") /\ is_amend(top)) =>
           /\ lastPC.outcome = "amend"
           /\ top.date = lastPC.call.date_str
           /\ top.env.RETROGIT_COMMIT_AMENDED = "1"
C7_Witness ==
    /\ lastPC.ran
    /\ lastPC.before.GIT_AUTHOR_DATE = Absent
    /\ lastPC.before.GIT_COMMITTER_DATE # Absent
    /\ lastPC.before.RETROGIT_COMMIT_AMENDED = "1"
    /\ lastPC.outcome = "exit1"

\* C8: load_config on a missing config file returns the default record
\* {interval_days: 3, randomness_days: 1, initial_backdate_days: 30} and makes
\* the parent directory, and the file stays missing whatever number of
\* load_config calls, commits and post-commit runs there are.
C8_MissingConfigStaysMissing ==
    (lastLoad.called /\ lastLoad.missing) =>
        /\ lastLoad.returned =
               [interval_days |-> 3, randomness_days |-> 1, initial_backdate_days |-> 30]
        /\ configDirExists
        /\ configFile = << >>
C8_Witness ==
    /\ lastLoad.called
    /\ lastLoad.missing
    /\ ops >= 2
    /\ Len(history) >= 2
    /\ history[2].amended = "hook"

\* C9: install is idempotent: every run in the repository exits 0 and leaves
\* exactly one post-commit hook file, executable, holding the script that
\* re-invokes the program with the post-commit verb, the other files
\* untouched; a second run leaves what the first left.
C9_InstallIdempotent ==
    (lastInstall.n >= 1 /\ lastInstall.repo) =>
        /\ lastInstall.code = 0
        /\ hooksDir = lastInstall.after
        /\ hooksDir # << >>
        /\ Cardinality({f \in hooksDir[1] : f.name = "post-commit"}) = 1
        /\ \A f \in hooksDir[1] :
               f.name = "post-commit" =>
                   /\ f.mode = "0o755"
                   /\ f.lines = <<"#!/bin/sh", "# RetroGit post-commit hook", HookCommand>>
        /\ SampleHook \in hooksDir[1]
        /\ hook_runs(hooksDir)
        /\ lastInstall.n >= 2 => lastInstall.after = lastInstall.before
C9_Witness ==
    /\ lastInstall.n = 2
    /\ lastInstall.code = 0
    /\ lastInstall.before # << >>
    /\ InstalledHook \in lastInstall.before[1]
    /\ idle

====
